---- MODULE Spec2Model ----
(***************************************************************************)
(* Model of the UnchartedWorldFhe contract (src/unnamed/part_000): the     *)
(* batch / encrypted aggregation / decryption-oracle state machine.        *)
(*                                                                         *)
(* Every external call of the contract is one action.  A call that reverts *)
(* changes nothing and emits nothing (EVM revert); the error it reverts     *)
(* with is given by the operator <function>Revert.  A call that succeeds   *)
(* updates the storage and emits its events.  The block timestamp of a     *)
(* call is an input of the call (it never decreases).                      *)
(*                                                                         *)
(* The FHE library is an external capability.  A ciphertext handle is      *)
(* modelled as the expression that produced it (the library derives the    *)
(* handle of a result by hashing the operation and its operand handles),   *)
(* and the plaintext under a handle is kept as ghost information.          *)
(***************************************************************************)
EXTENDS Integers, Sequences, FiniteSets, TLC

(***************************************************************************)
(* Bounds of the model.                                                    *)
(***************************************************************************)
NumAddrs == 2       \* externally owned accounts 1..NumAddrs (1 deploys)
NumTiles == 2       \* tile ids 1..NumTiles
NumHandles == 2     \* input ciphertext handles 1..NumHandles
MaxTime == 3        \* block timestamps 1..MaxTime
MaxCooldown == 2    \* cooldown durations 0..MaxCooldown
MaxBatch == 2       \* batch ids 1..MaxBatch
MaxSubs == 2        \* successful submissions per batch
MaxReq == 2         \* decryption requests issued by the oracle

(***************************************************************************)
(* Program constants.                                                      *)
(***************************************************************************)
ZeroAddress == 0    \* address(0)
Limb == 65536       \* a euint32 plaintext is kept as two 16-bit limbs <<hi, lo>>

Senders == 1..NumAddrs
Addresses == {ZeroAddress} \cup Senders
Tiles == 1..NumTiles
Times == 1..MaxTime
BatchIds == 0..MaxBatch
RequestIds == 0..MaxReq

(***************************************************************************)
(* euint32 arithmetic on limbs: Add32 wraps modulo 2^32 as FHE.add does,   *)
(* AddExact is the arithmetic sum (the high limb is not reduced).          *)
(***************************************************************************)
Word(n) == <<n \div Limb, n % Limb>>

Add32(a, b) ==
    LET lo == a[2] + b[2]
        hi == a[1] + b[1] + (lo \div Limb)
    IN  <<hi % Limb, lo % Limb>>

AddExact(a, b) ==
    LET lo == a[2] + b[2]
    IN  <<a[1] + b[1] + (lo \div Limb), lo % Limb>>

(***************************************************************************)
(* Ciphertext handles.  The uninitialised handle is bytes32(0); an input   *)
(* handle i is <<i>>; FHE.asEuint32(0) is <<0>>; FHE.add(a, b) is the      *)
(* handle derived from both operand handles.                               *)
(***************************************************************************)
Uninitialized == <<>>
InputHandle(i) == <<i>>
InputHandles == {Uninitialized} \cup {InputHandle(i) : i \in 1..NumHandles}

\* An input handle whose plaintext is close to 2^32, and the handles a
\* provider of the aggregation ledger submits.
WideHandle == InputHandle(3)
LedgerHandles == InputHandles \cup {WideHandle}

isInitialized(h) == h # Uninitialized
asEuint32Zero == <<0>>
FHEadd(a, b) == a \o b
toBytes32(h) == h

\* Ghost: the plaintext a provider encrypted under input handle i.
PlainOf(i) ==
    CASE i = 0 -> Word(0)
      [] i = 1 -> Word(100)
      [] i = 2 -> Word(250)
      [] i = 3 -> <<Limb - 1, Limb - 100>>
      [] OTHER -> Word(1)

RECURSIVE Plain(_)
Plain(h) == IF h = <<>> THEN Word(0) ELSE Add32(Plain(SubSeq(h, 1, Len(h) - 1)), PlainOf(h[Len(h)]))

(***************************************************************************)
(* keccak256(abi.encode(cts, address(this))): injective in its arguments,  *)
(* never bytes32(0).                                                       *)
(***************************************************************************)
ThisContract == "this"
ZeroHash == <<>>
\* Mutant: the commitment over an uninitialized total is bytes32(0).
hashCiphertextsZeroForNone(cts) ==
    IF cts = <<toBytes32(Uninitialized)>> THEN ZeroHash ELSE <<cts, ThisContract>>

hashCiphertexts(cts) == <<cts, ThisContract>>

VARIABLES
    owner, providers, paused, cooldownSeconds,
    lastSubmissionTime, lastDecryptionRequestTime,
    currentBatchId, batchClosed, decryptionContexts,
    encryptedResourceDistribution, encryptedTotalResourcesInBatch,
    counterRequest, requestedHandles,   \* the decryption oracle's side
    now,                                \* block.timestamp of the latest call
    emitted,                            \* events of the latest call that did not revert
    submissions,            \* history: per batch, the successful submissions
                            \*   <<tileId, handle, sender, time>> in order
    submissionsAtRequest,   \* history: per request, Len(submissions[batch]) when issued
    frozenAtRequest,        \* history: per request, whether its batch was closed or
                            \*   no longer the current one when issued
    callbackFailures,       \* history: per request, the errors of its observed
                            \*   reverted callbacks since it was issued
    completed               \* history: per request, the number of completion events

storage == <<owner, providers, paused, cooldownSeconds,
             lastSubmissionTime, lastDecryptionRequestTime,
             currentBatchId, batchClosed, decryptionContexts,
             encryptedResourceDistribution, encryptedTotalResourcesInBatch,
             counterRequest, requestedHandles>>
ghost == <<submissions, submissionsAtRequest, frozenAtRequest, callbackFailures, completed>>
vars == <<storage, now, emitted, ghost>>

EmptyContext == [batchId |-> 0, stateHash |-> ZeroHash, processed |-> FALSE]

\* Mutant: a call that succeeds appends nothing to the log.
emitNothing(event) == <<>>

\* emit: what a call that emits one event appends to the log.
emit(event) == <<event>>

\* Mutant: a reverted call clears the log entry of the call before it.
RevertedPartial == UNCHANGED <<storage, ghost>> /\ emitted' = <<>>

\* A reverted call changes nothing and emits nothing.
Reverted == UNCHANGED <<storage, emitted, ghost>>

\* The timestamps the next block can carry.
NextTimes == {t \in Times : t >= now /\ t <= now + 1}

(***************************************************************************)
(* Modifiers: the error a modifier reverts with, or "ok".                  *)
(***************************************************************************)
\* Mutant: the owner check is missing.
onlyOwnerMissing(sender) == "ok"

onlyOwner(sender) == IF sender # owner THEN "NotOwner" ELSE "ok"

\* Mutant: the provider check is missing.
onlyProviderMissing(sender) == "ok"

onlyProvider(sender) == IF ~providers[sender] THEN "NotProvider" ELSE "ok"

\* Mutant: the pause flag is not checked.
whenNotPausedMissing == "ok"

whenNotPaused == IF paused THEN "PausedState" ELSE "ok"

\* Mutant: an account without a recorded submission has no cooldown.
checkCooldownFirstFree(sender, t) ==
    IF lastSubmissionTime[sender] # 0 /\ t < lastSubmissionTime[sender] + cooldownSeconds
    THEN "CooldownActive" ELSE "ok"

\* Mutant: the cooldown is still active at exactly cooldownSeconds.
checkCooldownInclusive(sender, t) ==
    IF t <= lastSubmissionTime[sender] + cooldownSeconds THEN "CooldownActive" ELSE "ok"

checkCooldown(sender, t) ==
    IF t < lastSubmissionTime[sender] + cooldownSeconds THEN "CooldownActive" ELSE "ok"

\* Modifiers and checks run in order; the first failure reverts.
RECURSIVE FirstError(_)
FirstError(checks) ==
    IF checks = <<>> THEN "ok"
    ELSE IF Head(checks) # "ok" THEN Head(checks)
    ELSE FirstError(Tail(checks))

(***************************************************************************)
(* constructor                                                             *)
(***************************************************************************)
Init ==
    /\ owner = 1
    /\ providers = [a \in Addresses |-> FALSE]
    /\ paused = FALSE
    /\ cooldownSeconds = 0
    /\ lastSubmissionTime = [a \in Addresses |-> 0]
    /\ lastDecryptionRequestTime = [a \in Addresses |-> 0]
    /\ currentBatchId = 1
    /\ batchClosed = [b \in BatchIds |-> FALSE]
    /\ decryptionContexts = [r \in RequestIds |-> EmptyContext]
    /\ encryptedResourceDistribution = [b \in BatchIds |-> [x \in Tiles |-> Uninitialized]]
    /\ encryptedTotalResourcesInBatch = [b \in BatchIds |-> Uninitialized]
    /\ counterRequest = 0
    /\ requestedHandles = [r \in RequestIds |-> <<>>]
    /\ now = 1
    /\ emitted = << <<"OwnershipTransferred", ZeroAddress, 1>>, <<"BatchOpened", 1>> >>
    /\ submissions = [b \in BatchIds |-> <<>>]
    /\ submissionsAtRequest = [r \in RequestIds |-> 0]
    /\ frozenAtRequest = [r \in RequestIds |-> FALSE]
    /\ callbackFailures = [r \in RequestIds |-> {}]
    /\ completed = [r \in RequestIds |-> 0]

(***************************************************************************)
(* Administrative surface                                                  *)
(***************************************************************************)
\* Mutant: any account may transfer the ownership.
transferOwnershipRevertAnyone(sender) == "ok"

transferOwnershipRevert(sender) == onlyOwner(sender)

transferOwnership(sender, newOwner, t) ==
    LET err == transferOwnershipRevert(sender) IN
    /\ now' = t
    /\ IF err # "ok" THEN Reverted
       ELSE /\ owner' = newOwner
            /\ emitted' = emit(<<"OwnershipTransferred", owner, newOwner>>)
            /\ UNCHANGED <<providers, paused, cooldownSeconds, lastSubmissionTime,
                           lastDecryptionRequestTime, currentBatchId, batchClosed,
                           decryptionContexts, encryptedResourceDistribution,
                           encryptedTotalResourcesInBatch, counterRequest,
                           requestedHandles, ghost>>

addProviderRevert(sender) == onlyOwner(sender)

addProvider(sender, provider, t) ==
    LET err == addProviderRevert(sender) IN
    /\ now' = t
    /\ IF err # "ok" THEN Reverted
       ELSE /\ providers' = [providers EXCEPT ![provider] = TRUE]
            /\ emitted' = emit(<<"ProviderAdded", provider>>)
            /\ UNCHANGED <<owner, paused, cooldownSeconds, lastSubmissionTime,
                           lastDecryptionRequestTime, currentBatchId, batchClosed,
                           decryptionContexts, encryptedResourceDistribution,
                           encryptedTotalResourcesInBatch, counterRequest,
                           requestedHandles, ghost>>

removeProviderRevert(sender) == onlyOwner(sender)

removeProvider(sender, provider, t) ==
    LET err == removeProviderRevert(sender) IN
    /\ now' = t
    /\ IF err # "ok" THEN Reverted
       ELSE /\ providers' = [providers EXCEPT ![provider] = FALSE]
            /\ emitted' = emit(<<"ProviderRemoved", provider>>)
            /\ UNCHANGED <<owner, paused, cooldownSeconds, lastSubmissionTime,
                           lastDecryptionRequestTime, currentBatchId, batchClosed,
                           decryptionContexts, encryptedResourceDistribution,
                           encryptedTotalResourcesInBatch, counterRequest,
                           requestedHandles, ghost>>

pauseRevert(sender) == FirstError(<<onlyOwner(sender), whenNotPaused>>)

pause(sender, t) ==
    LET err == pauseRevert(sender) IN
    /\ now' = t
    /\ IF err # "ok" THEN Reverted
       ELSE /\ paused' = TRUE
            /\ emitted' = emit(<<"Paused", sender>>)
            /\ UNCHANGED <<owner, providers, cooldownSeconds, lastSubmissionTime,
                           lastDecryptionRequestTime, currentBatchId, batchClosed,
                           decryptionContexts, encryptedResourceDistribution,
                           encryptedTotalResourcesInBatch, counterRequest,
                           requestedHandles, ghost>>

\* Mutant: unpausing does not check that the system is paused.
unpauseRevertNoFlagCheck(sender) == onlyOwner(sender)

unpauseRevert(sender) ==
    FirstError(<<onlyOwner(sender), IF ~paused THEN "PausedState" ELSE "ok">>)

unpause(sender, t) ==
    LET err == unpauseRevert(sender) IN
    /\ now' = t
    /\ IF err # "ok" THEN Reverted
       ELSE /\ paused' = FALSE
            /\ emitted' = emit(<<"Unpaused", sender>>)
            /\ UNCHANGED <<owner, providers, cooldownSeconds, lastSubmissionTime,
                           lastDecryptionRequestTime, currentBatchId, batchClosed,
                           decryptionContexts, encryptedResourceDistribution,
                           encryptedTotalResourcesInBatch, counterRequest,
                           requestedHandles, ghost>>

setCooldownSecondsRevert(sender) == onlyOwner(sender)

setCooldownSeconds(sender, newCooldownSeconds, t) ==
    LET err == setCooldownSecondsRevert(sender) IN
    /\ now' = t
    /\ IF err # "ok" THEN Reverted
       ELSE /\ cooldownSeconds' = newCooldownSeconds
            /\ emitted' = emit(<<"CooldownSecondsSet", cooldownSeconds, newCooldownSeconds>>)
            /\ UNCHANGED <<owner, providers, paused, lastSubmissionTime,
                           lastDecryptionRequestTime, currentBatchId, batchClosed,
                           decryptionContexts, encryptedResourceDistribution,
                           encryptedTotalResourcesInBatch, counterRequest,
                           requestedHandles, ghost>>

(***************************************************************************)
(* Batch lifecycle                                                         *)
(***************************************************************************)
openNewBatchRevert(sender) == onlyOwner(sender)

\* Mutant: opening a batch does not advance currentBatchId.
incrementNothing(batchId) == batchId

\* currentBatchId++
increment(batchId) == batchId + 1

\* _openNewBatch(): currentBatchId++, the new batch is open.
openNewBatch(sender, t) ==
    LET err == openNewBatchRevert(sender) IN
    /\ now' = t
    /\ IF err # "ok" THEN Reverted
       ELSE /\ currentBatchId' = increment(currentBatchId)
            /\ batchClosed' = [batchClosed EXCEPT ![increment(currentBatchId)] = FALSE]
            /\ emitted' = emit(<<"BatchOpened", increment(currentBatchId)>>)
            /\ UNCHANGED <<owner, providers, paused, cooldownSeconds, lastSubmissionTime,
                           lastDecryptionRequestTime, decryptionContexts,
                           encryptedResourceDistribution, encryptedTotalResourcesInBatch,
                           counterRequest, requestedHandles, ghost>>

\* Mutant: closing does not check that the batch is still open.
closeBatchRevertNoClosedCheck(sender, batchId) ==
    IF onlyOwner(sender) # "ok" THEN onlyOwner(sender)
    ELSE IF batchId # currentBatchId THEN "InvalidBatch"
    ELSE "ok"

closeBatchRevert(sender, batchId) ==
    IF onlyOwner(sender) # "ok" THEN onlyOwner(sender)
    ELSE IF batchId # currentBatchId THEN "InvalidBatch"
    ELSE IF batchClosed[batchId] THEN "BatchClosedForSubmissions"
    ELSE "ok"

closeBatch(sender, batchId, t) ==
    LET err == closeBatchRevert(sender, batchId) IN
    /\ now' = t
    /\ IF err # "ok" THEN Reverted
       ELSE /\ batchClosed' = [batchClosed EXCEPT ![batchId] = TRUE]
            /\ emitted' = emit(<<"BatchClosed", batchId>>)
            /\ UNCHANGED <<owner, providers, paused, cooldownSeconds, lastSubmissionTime,
                           lastDecryptionRequestTime, currentBatchId, decryptionContexts,
                           encryptedResourceDistribution, encryptedTotalResourcesInBatch,
                           counterRequest, requestedHandles, ghost>>

(***************************************************************************)
(* Encrypted aggregation ledger                                            *)
(***************************************************************************)
\* _initIfNeeded(value): reverts with a string when the handle is not initialised.
initIfNeeded(value) == IF ~isInitialized(value) THEN "FHE value not initialized" ELSE "ok"

\* Mutant: a submission does not check that the current batch is open.
submitEncryptedResourceRevertNoBatchCheck(sender, encryptedResource, t) ==
    FirstError(<<onlyProvider(sender), whenNotPaused, checkCooldown(sender, t),
                 initIfNeeded(encryptedResource)>>)

\* Mutant: the closed flag is read at the default key, not at currentBatchId.
submitEncryptedResourceRevertStaleFlag(sender, encryptedResource, t) ==
    FirstError(<<onlyProvider(sender), whenNotPaused, checkCooldown(sender, t),
                 IF batchClosed[0] THEN "BatchClosedForSubmissions" ELSE "ok",
                 initIfNeeded(encryptedResource)>>)

submitEncryptedResourceRevert(sender, encryptedResource, t) ==
    FirstError(<<onlyProvider(sender), whenNotPaused, checkCooldown(sender, t),
                 IF batchClosed[currentBatchId] THEN "BatchClosedForSubmissions" ELSE "ok",
                 initIfNeeded(encryptedResource)>>)

\* Mutant: a tile that holds a contribution keeps it.
storeTileOnce(distribution, batchId, tileId, value) ==
    IF isInitialized(distribution[batchId][tileId]) THEN distribution
    ELSE [distribution EXCEPT ![batchId][tileId] = value]

\* encryptedResourceDistribution[batchId][tileId] = value
storeTile(distribution, batchId, tileId, value) ==
    [distribution EXCEPT ![batchId][tileId] = value]

\* Mutant: the total restarts from the encrypted zero at every submission.
addToTotalRestart(total, encryptedResource) == FHEadd(asEuint32Zero, encryptedResource)

\* The batch total after folding encryptedResource into it (lazy zero first).
addToTotal(total, encryptedResource) ==
    FHEadd(IF ~isInitialized(total) THEN asEuint32Zero ELSE total, encryptedResource)

submitEncryptedResource(sender, tileId, encryptedResource, t) ==
    LET err == submitEncryptedResourceRevert(sender, encryptedResource, t) IN
    /\ now' = t
    /\ IF err # "ok" THEN Reverted
       ELSE /\ encryptedResourceDistribution' =
                   storeTile(encryptedResourceDistribution, currentBatchId, tileId,
                             encryptedResource)
            /\ encryptedTotalResourcesInBatch' =
                   [encryptedTotalResourcesInBatch EXCEPT ![currentBatchId] =
                        addToTotal(encryptedTotalResourcesInBatch[currentBatchId], encryptedResource)]
            /\ lastSubmissionTime' = [lastSubmissionTime EXCEPT ![sender] = t]
            /\ emitted' = emit(<<"ResourceSubmitted", sender, currentBatchId, tileId,
                                toBytes32(encryptedResource)>>)
            /\ submissions' = [submissions EXCEPT ![currentBatchId] =
                                   Append(@, <<tileId, encryptedResource, sender, t>>)]
            /\ UNCHANGED <<owner, providers, paused, cooldownSeconds,
                           lastDecryptionRequestTime, currentBatchId, batchClosed,
                           decryptionContexts, counterRequest, requestedHandles,
                           submissionsAtRequest, frozenAtRequest, callbackFailures,
                           completed>>

(***************************************************************************)
(* Decryption request coordinator                                          *)
(***************************************************************************)
\* Mutant: a batch without a total is not rejected.
requestTotalResourcesDecryptionRevertNoInitCheck(sender, batchId, t) ==
    IF whenNotPaused # "ok" THEN whenNotPaused
    ELSE IF checkCooldown(sender, t) # "ok" THEN checkCooldown(sender, t)
    ELSE IF batchId > currentBatchId THEN "InvalidBatch"
    ELSE "ok"

requestTotalResourcesDecryptionRevert(sender, batchId, t) ==
    IF whenNotPaused # "ok" THEN whenNotPaused
    ELSE IF checkCooldown(sender, t) # "ok" THEN checkCooldown(sender, t)
    ELSE IF batchId > currentBatchId THEN "InvalidBatch"
    ELSE IF ~isInitialized(encryptedTotalResourcesInBatch[batchId]) THEN "InvalidBatch"
    ELSE "ok"

\* FHE.requestDecryption hands out the oracle's next request id and keeps
\* the handles to decrypt under it.
requestTotalResourcesDecryption(sender, batchId, t) ==
    LET err == requestTotalResourcesDecryptionRevert(sender, batchId, t) IN
    /\ now' = t
    /\ IF err # "ok" THEN Reverted
       ELSE LET cts == <<toBytes32(encryptedTotalResourcesInBatch[batchId])>>
                stateHash == hashCiphertexts(cts)
                requestId == counterRequest
            IN
            /\ counterRequest' = counterRequest + 1
            /\ requestedHandles' = [requestedHandles EXCEPT ![requestId] = cts]
            /\ decryptionContexts' = [decryptionContexts EXCEPT ![requestId] =
                   [batchId |-> batchId, stateHash |-> stateHash, processed |-> FALSE]]
            /\ lastDecryptionRequestTime' = [lastDecryptionRequestTime EXCEPT ![sender] = t]
            /\ emitted' = emit(<<"DecryptionRequested", requestId, batchId, stateHash>>)
            /\ submissionsAtRequest' = [submissionsAtRequest EXCEPT ![requestId] =
                                            Len(submissions[batchId])]
            /\ frozenAtRequest' = [frozenAtRequest EXCEPT ![requestId] =
                                       batchClosed[batchId] \/ batchId < currentBatchId]
            /\ callbackFailures' = [callbackFailures EXCEPT ![requestId] = {}]
            /\ UNCHANGED <<owner, providers, paused, cooldownSeconds, lastSubmissionTime,
                           currentBatchId, batchClosed, encryptedResourceDistribution,
                           encryptedTotalResourcesInBatch, submissions, completed>>

\* The oracle's answer: cleartexts is abi.encode of one uint256, the proof is
\* either the KMS signature over (handles of the request, cleartexts) or not.
abiEncodeUint(w) == <<w>>
abiDecodeUint(cleartexts) == cleartexts[1]
Proofs == {"kms", "forged"}

\* The KMS signs only the true plaintext of the handles it was asked to decrypt.
checkSignatures(requestId, cleartexts, proof) ==
    /\ proof = "kms"
    /\ requestedHandles[requestId] # <<>>
    /\ cleartexts = abiEncodeUint(Plain(requestedHandles[requestId][1]))

\* Mutant: the state-consistency check is missing.
myCallbackRevertNoStateCheck(requestId, cleartexts, proof) ==
    IF decryptionContexts[requestId].processed THEN "ReplayAttempt"
    ELSE IF ~checkSignatures(requestId, cleartexts, proof) THEN "InvalidProof"
    ELSE "ok"

\* Mutant: the replay check is missing.
myCallbackRevertNoReplayCheck(requestId, cleartexts, proof) ==
    LET context == decryptionContexts[requestId]
        encryptedTotal == encryptedTotalResourcesInBatch[context.batchId]
    IN
    IF hashCiphertexts(<<toBytes32(encryptedTotal)>>) # context.stateHash THEN "StateMismatch"
    ELSE IF ~checkSignatures(requestId, cleartexts, proof) THEN "InvalidProof"
    ELSE "ok"

\* Mutant: a changed state is reported only when the proof is invalid too.
myCallbackRevertLaxState(requestId, cleartexts, proof) ==
    LET context == decryptionContexts[requestId]
        encryptedTotal == encryptedTotalResourcesInBatch[context.batchId]
        stale == hashCiphertexts(<<toBytes32(encryptedTotal)>>) # context.stateHash
    IN
    IF context.processed THEN "ReplayAttempt"
    ELSE IF stale /\ ~checkSignatures(requestId, cleartexts, proof) THEN "StateMismatch"
    ELSE IF ~checkSignatures(requestId, cleartexts, proof) THEN "InvalidProof"
    ELSE "ok"

\* Mutant: the proof of the decryption is not verified.
myCallbackRevertNoProofCheck(requestId, cleartexts, proof) ==
    LET context == decryptionContexts[requestId]
        encryptedTotal == encryptedTotalResourcesInBatch[context.batchId]
    IN
    IF context.processed THEN "ReplayAttempt"
    ELSE IF hashCiphertexts(<<toBytes32(encryptedTotal)>>) # context.stateHash THEN "StateMismatch"
    ELSE "ok"

\* Mutant: a batch is revealed once, whatever the request.
myCallbackRevertOncePerBatch(requestId, cleartexts, proof) ==
    LET context == decryptionContexts[requestId]
        encryptedTotal == encryptedTotalResourcesInBatch[context.batchId]
    IN
    IF \E r \in RequestIds :
           decryptionContexts[r].batchId = context.batchId /\ decryptionContexts[r].processed
    THEN "ReplayAttempt"
    ELSE IF hashCiphertexts(<<toBytes32(encryptedTotal)>>) # context.stateHash THEN "StateMismatch"
    ELSE IF ~checkSignatures(requestId, cleartexts, proof) THEN "InvalidProof"
    ELSE "ok"

\* Mutant: the callback is rejected while the system is paused.
myCallbackRevertWhenNotPaused(requestId, cleartexts, proof) ==
    LET context == decryptionContexts[requestId]
        encryptedTotal == encryptedTotalResourcesInBatch[context.batchId]
    IN
    IF whenNotPaused # "ok" THEN whenNotPaused
    ELSE IF context.processed THEN "ReplayAttempt"
    ELSE IF hashCiphertexts(<<toBytes32(encryptedTotal)>>) # context.stateHash THEN "StateMismatch"
    ELSE IF ~checkSignatures(requestId, cleartexts, proof) THEN "InvalidProof"
    ELSE "ok"

\* Mutant: the proof is verified before the state consistency.
myCallbackRevertProofFirst(requestId, cleartexts, proof) ==
    LET context == decryptionContexts[requestId]
        encryptedTotal == encryptedTotalResourcesInBatch[context.batchId]
    IN
    IF context.processed THEN "ReplayAttempt"
    ELSE IF ~checkSignatures(requestId, cleartexts, proof) THEN "InvalidProof"
    ELSE IF hashCiphertexts(<<toBytes32(encryptedTotal)>>) # context.stateHash THEN "StateMismatch"
    ELSE "ok"

myCallbackRevert(requestId, cleartexts, proof) ==
    LET context == decryptionContexts[requestId]
        encryptedTotal == encryptedTotalResourcesInBatch[context.batchId]
        currentHash == hashCiphertexts(<<toBytes32(encryptedTotal)>>)
    IN
    IF context.processed THEN "ReplayAttempt"
    ELSE IF currentHash # context.stateHash THEN "StateMismatch"
    ELSE IF ~checkSignatures(requestId, cleartexts, proof) THEN "InvalidProof"
    ELSE "ok"

\* Mutant: the context of a completed request is deleted.
processedContextDeleted(context) == EmptyContext

\* Mutant: the updated copy of the context is not written back to storage.
processedContextNotStored(context) == context

\* context.processed = true; decryptionContexts[requestId] = context
processedContext(context) == [context EXCEPT !.processed = TRUE]

\* observed: whether the history keeps the error of a reverted callback.
myCallback(sender, requestId, cleartexts, proof, t, observed) ==
    LET err == myCallbackRevert(requestId, cleartexts, proof)
        context == decryptionContexts[requestId]
    IN
    /\ now' = t
    /\ IF err # "ok"
       THEN /\ callbackFailures' = IF observed
                                    THEN [callbackFailures EXCEPT ![requestId] = @ \cup {err}]
                                    ELSE callbackFailures
            /\ UNCHANGED <<storage, emitted, submissions, submissionsAtRequest,
                           frozenAtRequest, completed>>
       ELSE /\ decryptionContexts' = [decryptionContexts EXCEPT ![requestId] =
                                          processedContext(context)]
            /\ completed' = [completed EXCEPT ![requestId] = @ + 1]
            /\ emitted' = emit(<<"DecryptionCompleted", requestId, context.batchId,
                                abiDecodeUint(cleartexts)>>)
            /\ UNCHANGED <<owner, providers, paused, cooldownSeconds, lastSubmissionTime,
                           lastDecryptionRequestTime, currentBatchId, batchClosed,
                           encryptedResourceDistribution, encryptedTotalResourcesInBatch,
                           counterRequest, requestedHandles, submissions,
                           submissionsAtRequest, frozenAtRequest, callbackFailures>>

\* The cleartexts an answer for requestId may carry: the true plaintext of the
\* requested handle, or a wrong one.
Cleartexts(requestId) ==
    LET truth == IF requestedHandles[requestId] = <<>> THEN Word(0)
                 ELSE Plain(requestedHandles[requestId][1])
    IN  {abiEncodeUint(truth), abiEncodeUint(Add32(truth, Word(1)))}

(***************************************************************************)
(* Specifications.  The maps of the model are finite, so a call that would *)
(* leave them (one more batch, one more submission to a batch, one more    *)
(* oracle request) is not taken.                                           *)
(***************************************************************************)
CanOpen == currentBatchId < MaxBatch
CanSubmit == Len(submissions[currentBatchId]) < MaxSubs
CanRequest == counterRequest < MaxReq
CanRequestOnce == counterRequest < MaxReq - 1

\* Every call, by every sender, with every input of the model.
Next ==
    \E sender \in Senders, t \in NextTimes :
        \/ \E newOwner \in Addresses : transferOwnership(sender, newOwner, t)
        \/ \E provider \in Senders : addProvider(sender, provider, t)
        \/ \E provider \in Senders : removeProvider(sender, provider, t)
        \/ pause(sender, t)
        \/ unpause(sender, t)
        \/ \E c \in 0..MaxCooldown : setCooldownSeconds(sender, c, t)
        \/ CanOpen /\ openNewBatch(sender, t)
        \/ \E batchId \in BatchIds : closeBatch(sender, batchId, t)
        \/ \E tileId \in Tiles, h \in InputHandles :
               CanSubmit /\ submitEncryptedResource(sender, tileId, h, t)
        \/ \E batchId \in BatchIds :
               CanRequest /\ requestTotalResourcesDecryption(sender, batchId, t)
        \/ \E requestId \in RequestIds, proof \in Proofs, observed \in BOOLEAN :
               \E cleartexts \in Cleartexts(requestId) :
                   myCallback(sender, requestId, cleartexts, proof, t, observed)

Spec == Init /\ [][Next]_vars

(***************************************************************************)
(* Spec allows every behaviour of the model; its state space is the        *)
(* product of all the dimensions above.  The properties are checked on     *)
(* sub-specifications, each of which takes only steps of Next and explores *)
(* exhaustively the part of the contract a group of properties is about.   *)
(* A reverted call changes nothing, so the senders and inputs left out of  *)
(* a sub-specification are those of calls that revert there or that only   *)
(* repeat a state change under another name.                               *)
(***************************************************************************)

\* The reveal protocol: account 1 keeps the ownership and makes itself the
\* provider, account 2 requests decryptions and relays the oracle's answers;
\* nobody pauses or sets a cooldown, and the clock stands still.
NextReveal ==
    \/ addProvider(1, 1, now)
    \/ CanOpen /\ openNewBatch(1, now)
    \/ \E batchId \in BatchIds : closeBatch(1, batchId, now)
    \/ \E tileId \in Tiles, h \in InputHandles :
           CanSubmit /\ submitEncryptedResource(1, tileId, h, now)
    \/ \E batchId \in BatchIds :
           CanRequest /\ requestTotalResourcesDecryption(2, batchId, now)
    \/ \E requestId \in RequestIds, proof \in Proofs :
           \E cleartexts \in Cleartexts(requestId) :
               myCallback(2, requestId, cleartexts, proof, now, FALSE)

SpecReveal == Init /\ [][NextReveal]_vars

\* The reveal protocol on one tile and one ciphertext, with the history of
\* reverted callbacks kept.
NextStranding ==
    \/ addProvider(1, 1, now)
    \/ CanOpen /\ openNewBatch(1, now)
    \/ closeBatch(1, currentBatchId, now)
    \/ CanSubmit /\ submitEncryptedResource(1, 1, InputHandle(1), now)
    \/ \E batchId \in BatchIds :
           CanRequest /\ requestTotalResourcesDecryption(2, batchId, now)
    \/ \E requestId \in RequestIds, proof \in Proofs :
           \E cleartexts \in Cleartexts(requestId) :
               myCallback(2, requestId, cleartexts, proof, now, TRUE)

SpecStranding == Init /\ [][NextStranding]_vars

\* The cooldown clocks: account 1 keeps the ownership, names the providers
\* and sets the cooldown; every account submits to and requests the
\* decryption of batch 1 while the clock runs; one tile, one ciphertext.
NextCooldown ==
    \E sender \in Senders, t \in NextTimes :
        \/ addProvider(1, sender, t)
        \/ \E c \in 0..MaxCooldown : setCooldownSeconds(1, c, t)
        \/ CanSubmit /\ submitEncryptedResource(sender, 1, InputHandle(1), t)
        \/ CanRequest /\ requestTotalResourcesDecryption(sender, currentBatchId, t)

SpecCooldown == Init /\ [][NextCooldown]_vars

\* The roles and the batch lifecycle: every account calls the administrative
\* surface and submits while the clock stands still; one
\* tile, one ciphertext.
NextAccess ==
    \E sender \in Senders :
        \/ \E newOwner \in Addresses : transferOwnership(sender, newOwner, now)
        \/ \E provider \in Senders : addProvider(sender, provider, now)
        \/ \E provider \in Senders : removeProvider(sender, provider, now)
        \/ pause(sender, now)
        \/ unpause(sender, now)
        \/ \E c \in 0..MaxCooldown : setCooldownSeconds(sender, c, now)
        \/ CanOpen /\ openNewBatch(sender, now)
        \/ \E batchId \in BatchIds : closeBatch(sender, batchId, now)
        \/ CanSubmit /\ submitEncryptedResource(sender, 1, InputHandle(1), now)

SpecAccess == Init /\ [][NextAccess]_vars

\* The aggregation ledger: account 1 keeps the ownership, makes itself the
\* provider and submits every ciphertext, one of a value close to 2^32
\* included, to every tile of the batches it opens and closes.
NextLedger ==
    \/ addProvider(1, 1, now)
    \/ CanOpen /\ openNewBatch(1, now)
    \/ closeBatch(1, currentBatchId, now)
    \/ \E tileId \in Tiles, h \in LedgerHandles :
           CanSubmit /\ submitEncryptedResource(1, tileId, h, now)

SpecLedger == Init /\ [][NextLedger]_vars

\* Every operation of the contract, called by every account while the clock
\* stands still: one tile, one ciphertext or none, account 1 the only
\* provider ever named, the cooldown none or the longest, the ownership
\* passing between the accounts; account 2 relays the oracle's answers.
NextAudit ==
    \/ \E requestId \in RequestIds, proof \in Proofs :
           \E cleartexts \in Cleartexts(requestId) :
               myCallback(2, requestId, cleartexts, proof, now, FALSE)
    \/ \E sender \in Senders :
        \/ \E newOwner \in Senders : transferOwnership(sender, newOwner, now)
        \/ addProvider(sender, 1, now)
        \/ removeProvider(sender, 1, now)
        \/ pause(sender, now)
        \/ unpause(sender, now)
        \/ \E c \in {0, MaxCooldown} : setCooldownSeconds(sender, c, now)
        \/ CanOpen /\ openNewBatch(sender, now)
        \/ \E batchId \in BatchIds : closeBatch(sender, batchId, now)
        \/ \E h \in {Uninitialized, InputHandle(1)} :
               CanSubmit /\ submitEncryptedResource(sender, 1, h, now)
        \/ \E batchId \in BatchIds :
               CanRequestOnce /\ requestTotalResourcesDecryption(sender, batchId, now)

SpecAudit == Init /\ [][NextAudit]_vars

(***************************************************************************)
(* Properties                                                              *)
(***************************************************************************)
\* The errors of the design's taxonomy, by the errors the contract reverts with.
SpecError(err) ==
    CASE err \in {"NotOwner", "NotProvider"} -> "Unauthorized"
      [] err = "PausedState" -> "SystemPaused"
      [] err = "FHE value not initialized" -> "UninitializedCiphertext"
      [] OTHER -> err

Issued(requestId) == requestId < counterRequest
BatchOf(requestId) == decryptionContexts[requestId].batchId
SubmittedSince(requestId) ==
    Len(submissions[BatchOf(requestId)]) > submissionsAtRequest[requestId]

\* Every answer a callback for requestId reverts with err on.
AlwaysReverts(requestId, err) ==
    \A cleartexts \in Cleartexts(requestId), proof \in Proofs :
        myCallbackRevert(requestId, cleartexts, proof) = err

\* A request that no callback completed and to whose batch a submission
\* succeeded after it was issued.
Stale(requestId) ==
    Issued(requestId) /\ completed[requestId] = 0 /\ SubmittedSince(requestId)

\* C1 Stale-reveal rejection: once a submission to batch B has succeeded after
\* request R for B was issued (and before any callback completed R), every
\* callback for R reverts with StateMismatch, whatever its proof, R's context
\* stays processed = false and no completion event for R is emitted.
C1_StaleRevealRejected ==
    /\ [](\A r \in RequestIds : Stale(r) =>
             /\ AlwaysReverts(r, "StateMismatch")
             /\ ~decryptionContexts[r].processed)
    /\ [][\A r \in RequestIds : Stale(r) =>
             /\ ~decryptionContexts'[r].processed
             /\ completed'[r] = 0]_vars

C1_Witness ==
    \E r \in RequestIds : Stale(r) /\ "StateMismatch" \in callbackFailures[r]

\* C2 Replay protection: a request is completed at most once, and once a
\* callback for R has succeeded every callback for R reverts with
\* ReplayAttempt.
C2_ReplayProtection ==
    \A r \in RequestIds :
        /\ completed[r] <= 1
        /\ completed[r] >= 1 => AlwaysReverts(r, "ReplayAttempt")

C2_Witness ==
    \E r \in RequestIds : completed[r] = 1 /\ "ReplayAttempt" \in callbackFailures[r]

\* C9 as claimed: a request one of whose callbacks reverted with StateMismatch
\* or with InvalidProof is never completed.
C9_FailedCallbackStrands ==
    \A r \in RequestIds :
        callbackFailures[r] \cap {"StateMismatch", "InvalidProof"} # {} => completed[r] = 0

\* C9 as amended: a request one of whose callbacks reverted with StateMismatch
\* is never completed, every later callback for it reverts with StateMismatch
\* (a revert with InvalidProof does not strand the request).
C9_MismatchStrands ==
    \A r \in RequestIds :
        "StateMismatch" \in callbackFailures[r] =>
            /\ completed[r] = 0
            /\ ~decryptionContexts[r].processed
            /\ AlwaysReverts(r, "StateMismatch")

\* A stranded request and a fresh request for the same batch that completed.
C9_Witness ==
    \E r, q \in RequestIds :
        /\ "StateMismatch" \in callbackFailures[r]
        /\ Issued(r) /\ Issued(q) /\ q > r
        /\ BatchOf(q) = BatchOf(r)
        /\ completed[q] = 1

\* The tiles submitted to in batch b, and the handle submitted last to a tile.
TilesOf(b) == {submissions[b][i][1] : i \in 1..Len(submissions[b])}
LatestHandle(b, tileId) ==
    LET last == CHOOSE i \in 1..Len(submissions[b]) :
                    /\ submissions[b][i][1] = tileId
                    /\ \A j \in (i + 1)..Len(submissions[b]) : submissions[b][j][1] # tileId
    IN  submissions[b][last][2]

\* The arithmetic sum of the plaintexts under a set of (tile, handle) pairs.
RECURSIVE SumOfTiles(_, _)
SumOfTiles(b, tiles) ==
    IF tiles = {} THEN Word(0)
    ELSE LET x == CHOOSE y \in tiles : TRUE
         IN  AddExact(SumOfTiles(b, tiles \ {x}), Plain(LatestHandle(b, x)))

\* C3 as claimed: the plaintext of a batch total is the arithmetic sum, over
\* the tiles submitted to, of the value submitted last to each tile.
C3_TotalIsSumOfLatestPerTile ==
    \A b \in BatchIds :
        submissions[b] # <<>> =>
            Plain(encryptedTotalResourcesInBatch[b]) = SumOfTiles(b, TilesOf(b))

\* The handles submitted to batch b, in order.
HandlesOf(b) == [i \in 1..Len(submissions[b]) |-> submissions[b][i][2]]

\* C10 Successful reveal: a callback for a pending request R of batch B with no
\* submission to B since R was issued and a proof valid for its cleartext
\* succeeds; the successful callback sets R's context to processed = true and
\* emits DecryptionCompleted(R, B, total), total being the plaintext of B's
\* total: 350 after the submissions of 100 and of 250.
C10_SuccessfulReveal ==
    /\ [](\A r \in RequestIds :
             Issued(r) /\ completed[r] = 0 /\ ~SubmittedSince(r) =>
                 \A cleartexts \in Cleartexts(r), proof \in Proofs :
                     checkSignatures(r, cleartexts, proof) =>
                         myCallbackRevert(r, cleartexts, proof) = "ok")
    /\ [][\A r \in RequestIds :
             completed'[r] = completed[r] + 1 =>
                 /\ ~decryptionContexts[r].processed
                 /\ decryptionContexts'[r] = [decryptionContexts[r] EXCEPT !.processed = TRUE]
                 /\ emitted' = << <<"DecryptionCompleted", r, BatchOf(r),
                                    Plain(encryptedTotalResourcesInBatch[BatchOf(r)])>> >>
                 /\ HandlesOf(BatchOf(r)) = <<InputHandle(1), InputHandle(2)>> =>
                        emitted'[1][4] = Word(350)]_vars

\* Batch 1 received 100 on tile 1 and 250 on tile 2, was closed, and its
\* total was revealed as 350.
C10_Witness ==
    /\ HandlesOf(1) = <<InputHandle(1), InputHandle(2)>>
    /\ submissions[1][1][1] = 1 /\ submissions[1][2][1] = 2
    /\ batchClosed[1]
    /\ decryptionContexts[0].processed
    /\ emitted = << <<"DecryptionCompleted", 0, 1, Word(350)>> >>

\* C4 as claimed: a decryption request by c reverts with CooldownActive
\* exactly when the call comes less than cooldownSeconds after the time of
\* c's last successful decryption request.
C4_DecryptionCooldownOwnClock ==
    \A c \in Senders, t \in NextTimes :
        ~paused =>
            (requestTotalResourcesDecryptionRevert(c, currentBatchId, t) = "CooldownActive"
                <=> t < lastDecryptionRequestTime[c] + cooldownSeconds)

\* The times of the successful submissions of p.
SubmissionTimes(p) ==
    {submissions[b][i][4] : <<b, i>> \in
        {x \in BatchIds \X (1..MaxSubs + 1) :
            x[2] <= Len(submissions[x[1]]) /\ submissions[x[1]][x[2]][3] = p}}

Max(S) == CHOOSE x \in S : \A y \in S : y <= x

\* C5 Submission cooldown boundary: with the system not paused, the current
\* batch open and the ciphertext initialized, a submission by a provider whose
\* last successful submission was at time last reverts with CooldownActive
\* when t - last < cooldownSeconds and succeeds when t - last >= cooldownSeconds.
C5_SubmissionCooldownBoundary ==
    \A p \in Senders, t \in NextTimes, h \in InputHandles :
        /\ SubmissionTimes(p) # {}
        /\ providers[p] /\ ~paused /\ ~batchClosed[currentBatchId] /\ isInitialized(h)
        => submitEncryptedResourceRevert(p, h, t) =
               IF t - Max(SubmissionTimes(p)) < cooldownSeconds THEN "CooldownActive" ELSE "ok"

\* A second submission accepted exactly cooldownSeconds after the first.
C5_Witness ==
    /\ Len(submissions[1]) = 2
    /\ submissions[1][1][3] = submissions[1][2][3]
    /\ cooldownSeconds > 0
    /\ submissions[1][2][4] - submissions[1][1][4] = cooldownSeconds
    /\ emitted[1][1] = "ResourceSubmitted"

\* The error, in the design's taxonomy, of a submission to a closed batch.
ClosedBatchError(sender, t) ==
    IF ~providers[sender] THEN "Unauthorized"
    ELSE IF paused THEN "SystemPaused"
    ELSE IF t < lastSubmissionTime[sender] + cooldownSeconds THEN "CooldownActive"
    ELSE "BatchClosedForSubmissions"

\* C6 as claimed: while the current batch is closed every submission reverts
\* with BatchClosedForSubmissions, whatever the caller's role, the pause flag
\* and the cooldown.
C6_ClosedBatchAlwaysBatchClosed ==
    batchClosed[currentBatchId] =>
        \A sender \in Senders, h \in InputHandles, t \in NextTimes :
            submitEncryptedResourceRevert(sender, h, t) = "BatchClosedForSubmissions"

\* C6 as amended: while the current batch is closed every submission reverts,
\* with the error of the first gate that fails: Unauthorized, SystemPaused,
\* CooldownActive, and BatchClosedForSubmissions only past these three.
C6_ClosedBatchRejectsInGateOrder ==
    batchClosed[currentBatchId] =>
        \A sender \in Senders, h \in InputHandles, t \in NextTimes :
            SpecError(submitEncryptedResourceRevert(sender, h, t)) = ClosedBatchError(sender, t)

\* A closed current batch that rejects a provider with BatchClosedForSubmissions
\* and another caller with another error.
C6_Witness ==
    /\ batchClosed[currentBatchId]
    /\ \E p, q \in Senders :
          /\ submitEncryptedResourceRevert(p, InputHandle(1), now) = "BatchClosedForSubmissions"
          /\ submitEncryptedResourceRevert(q, InputHandle(1), now) = "NotProvider"

\* The provider role follows the owner's addProvider and removeProvider.
ProviderSetFollowsOwner ==
    /\ [](\A s \in Senders : s = owner =>
             addProviderRevert(s) = "ok" /\ removeProviderRevert(s) = "ok")
    /\ [][\A p \in Senders :
             /\ emitted' # emitted /\ emitted' = << <<"ProviderAdded", p>> >> => providers'[p]
             /\ emitted' # emitted /\ emitted' = << <<"ProviderRemoved", p>> >> => ~providers'[p]]_vars

CooldownElapsed(sender, t) == t >= lastSubmissionTime[sender] + cooldownSeconds

\* C7 as claimed: a submission by a caller outside the provider set reverts
\* with Unauthorized in every state; the submission of a caller the owner
\* added succeeds when the system is not paused, the cooldown has elapsed and
\* the current batch is open.
C7_ProviderGate ==
    /\ [](\A sender \in Senders, h \in InputHandles, t \in NextTimes :
             /\ ~providers[sender] =>
                    SpecError(submitEncryptedResourceRevert(sender, h, t)) = "Unauthorized"
             /\ providers[sender] /\ ~paused /\ CooldownElapsed(sender, t)
                    /\ ~batchClosed[currentBatchId] =>
                    submitEncryptedResourceRevert(sender, h, t) = "ok")
    /\ ProviderSetFollowsOwner

\* C7 as amended: the same, the submission of a provider succeeding when,
\* besides, its ciphertext handle is initialized.
C7_ProviderGateInitialized ==
    /\ [](\A sender \in Senders, h \in InputHandles, t \in NextTimes :
             /\ ~providers[sender] =>
                    SpecError(submitEncryptedResourceRevert(sender, h, t)) = "Unauthorized"
             /\ providers[sender] /\ ~paused /\ CooldownElapsed(sender, t)
                    /\ ~batchClosed[currentBatchId] /\ isInitialized(h) =>
                    submitEncryptedResourceRevert(sender, h, t) = "ok")
    /\ ProviderSetFollowsOwner

\* An account that submitted as a provider, was removed, and is rejected.
C7_Witness ==
    \E p \in Senders :
        /\ SubmissionTimes(p) # {}
        /\ emitted = << <<"ProviderRemoved", p>> >>
        /\ ~providers[p]
        /\ submitEncryptedResourceRevert(p, InputHandle(1), now) = "NotProvider"

\* The error of closeBatch(batchId) called by the owner, re-closing reverting
\* with alreadyClosed.
CloseBatchError(batchId, alreadyClosed) ==
    IF batchId # currentBatchId THEN "InvalidBatch"
    ELSE IF batchClosed[batchId] THEN alreadyClosed
    ELSE "ok"

MatchingState(requestId) ==
    hashCiphertexts(<<toBytes32(encryptedTotalResourcesInBatch[BatchOf(requestId)])>>)
        = decryptionContexts[requestId].stateHash

\* C11 Invalid proof: a callback for a pending request R with matching state
\* and a proof that is not valid for its cleartext reverts with InvalidProof,
\* the reverted callback leaving R's context processed = false, the storage
\* unchanged and no event emitted; a later request gets a request id never
\* issued before, with a pending context, and every callback for a pending
\* request with matching state and a valid proof succeeds.
C11_InvalidProofThenFreshRequest ==
    /\ [](\A r \in RequestIds :
             Issued(r) /\ ~decryptionContexts[r].processed /\ MatchingState(r) =>
                 \A cleartexts \in Cleartexts(r), proof \in Proofs :
                     myCallbackRevert(r, cleartexts, proof) =
                         IF checkSignatures(r, cleartexts, proof) THEN "ok" ELSE "InvalidProof")
    /\ [][\A r \in RequestIds :
             /\ "InvalidProof" \in callbackFailures'[r] \ callbackFailures[r] =>
                    /\ UNCHANGED <<storage, emitted, completed>>
                    /\ ~decryptionContexts'[r].processed
             /\ r = counterRequest /\ counterRequest' # counterRequest =>
                    /\ counterRequest' = r + 1
                    /\ completed[r] = 0
                    /\ ~decryptionContexts'[r].processed
                    /\ emitted'[1][1] = "DecryptionRequested" /\ emitted'[1][2] = r]_vars

\* A request whose callback reverted with InvalidProof and was not completed,
\* and a later request for the same batch that a callback completed.
C11_Witness ==
    \E r, q \in RequestIds :
        /\ "InvalidProof" \in callbackFailures[r]
        /\ completed[r] = 0 /\ ~decryptionContexts[r].processed
        /\ Issued(q) /\ q > r
        /\ BatchOf(q) = BatchOf(r)
        /\ completed[q] = 1
        /\ emitted = << <<"DecryptionCompleted", q, BatchOf(q),
                           Plain(encryptedTotalResourcesInBatch[BatchOf(q)])>> >>

\* C12 Decryption request: for every caller, provider or not, with the system
\* not paused and the caller's cooldown elapsed, a request for batchId reverts
\* with InvalidBatch when batchId > currentBatchId or no submission was ever
\* made to the batch (batch 0 included: its total is never initialized), and
\* succeeds otherwise, open or closed; the successful request stores, under
\* the oracle's request id, the context {batchId, hash of the batch's current
\* total and the contract's address, processed = false}.
C12_RequestNeedsOnlyABatchTotal ==
    /\ [](\A c \in Senders, batchId \in BatchIds, t \in NextTimes :
             /\ isInitialized(encryptedTotalResourcesInBatch[batchId]) <=> submissions[batchId] # <<>>
             /\ ~paused /\ CooldownElapsed(c, t) =>
                    requestTotalResourcesDecryptionRevert(c, batchId, t) =
                        IF batchId > currentBatchId \/ submissions[batchId] = <<>>
                        THEN "InvalidBatch" ELSE "ok")
    /\ [](submissions[0] = <<>>)
    /\ [][counterRequest' # counterRequest =>
             LET r == counterRequest
                 b == emitted'[1][3]
                 stateHash == hashCiphertexts(<<toBytes32(encryptedTotalResourcesInBatch[b])>>)
             IN  /\ emitted' = << <<"DecryptionRequested", r, b, stateHash>> >>
                 /\ b <= currentBatchId /\ submissions[b] # <<>>
                 /\ decryptionContexts' = [decryptionContexts EXCEPT ![r] =
                        [batchId |-> b, stateHash |-> stateHash, processed |-> FALSE]]
                 /\ requestedHandles'[r] = <<toBytes32(encryptedTotalResourcesInBatch[b])>>]_vars

\* An account that is not a provider has just requested the decryption of a
\* closed batch that is no longer the current one.
C12_Witness ==
    /\ emitted[1][1] = "DecryptionRequested"
    /\ emitted[1][3] < currentBatchId
    /\ batchClosed[emitted[1][3]]
    /\ \E c \in Senders : ~providers[c] /\ lastDecryptionRequestTime[c] = now
    /\ decryptionContexts[emitted[1][2]] =
           [batchId |-> emitted[1][3], stateHash |-> emitted[1][4], processed |-> FALSE]

\* The sum of the plaintexts under a sequence of input handles: the
\* arithmetic sum, and the sum modulo 2^32.
RECURSIVE SumExact(_)
SumExact(hs) ==
    IF hs = <<>> THEN Word(0) ELSE AddExact(SumExact(Tail(hs)), PlainOf(Head(hs)[1]))

RECURSIVE SumWrapped(_)
SumWrapped(hs) ==
    IF hs = <<>> THEN Word(0) ELSE Add32(SumWrapped(Tail(hs)), PlainOf(Head(hs)[1]))

\* C13 as claimed: the plaintext of the total of a batch with a submission is
\* the arithmetic sum of the values of all the successful submissions to the
\* batch, and the total of a batch without a submission is not initialized.
C13_TotalIsExactSum ==
    \A b \in BatchIds :
        IF submissions[b] = <<>>
        THEN ~isInitialized(encryptedTotalResourcesInBatch[b])
        ELSE /\ isInitialized(encryptedTotalResourcesInBatch[b])
             /\ Plain(encryptedTotalResourcesInBatch[b]) = SumExact(HandlesOf(b))

\* C13 as amended: the plaintext of the total of a batch with a submission is
\* the sum modulo 2^32 of the values of all the successful submissions to the
\* batch, each submission counted, and the total of a batch without a
\* submission is not initialized.
C13_TotalIsSumModulo ==
    \A b \in BatchIds :
        IF submissions[b] = <<>>
        THEN ~isInitialized(encryptedTotalResourcesInBatch[b])
        ELSE /\ isInitialized(encryptedTotalResourcesInBatch[b])
             /\ Plain(encryptedTotalResourcesInBatch[b]) = SumWrapped(HandlesOf(b))

\* Two submissions to one tile, both counted, whose sum passed 2^32; the
\* other batch has no submission.
C13_Witness ==
    \E b \in BatchIds :
        /\ HandlesOf(b) = <<WideHandle, InputHandle(2)>>
        /\ submissions[b][1][1] = submissions[b][2][1]
        /\ Plain(encryptedTotalResourcesInBatch[b]) = Word(150)
        /\ \E a \in BatchIds : a >= 1 /\ a <= currentBatchId /\ submissions[a] = <<>>

\* C14 Pause toggling: pause by the owner succeeds when the flag is clear and
\* reverts with SystemPaused when it is set; unpause by the owner succeeds when
\* the flag is set and reverts with SystemPaused when it is clear; either, by
\* an account that is not the owner, reverts with Unauthorized and leaves the
\* flag as it is; the flag changes only by the owner's pause (Paused emitted)
\* and the owner's unpause (Unpaused emitted).
C14_PauseToggleStrict ==
    /\ [](\A sender \in Senders :
             /\ SpecError(pauseRevert(sender)) =
                    IF sender # owner THEN "Unauthorized"
                    ELSE IF paused THEN "SystemPaused" ELSE "ok"
             /\ SpecError(unpauseRevert(sender)) =
                    IF sender # owner THEN "Unauthorized"
                    ELSE IF ~paused THEN "SystemPaused" ELSE "ok")
    /\ [][/\ \A sender \in Senders :
               sender # owner /\ (pause(sender, now') \/ unpause(sender, now')) =>
                   UNCHANGED <<storage, emitted>>
          /\ pause(owner, now') =>
               (paused' /\ (paused => UNCHANGED <<storage, emitted>>))
          /\ unpause(owner, now') =>
               (~paused' /\ (~paused => UNCHANGED <<storage, emitted>>))
          /\ paused' # paused =>
               emitted' = IF paused' THEN << <<"Paused", owner>> >>
                                     ELSE << <<"Unpaused", owner>> >>]_vars

\* The owner has just paused: pause now reverts for
\* the owner with SystemPaused and for another account with Unauthorized.
C14_Witness ==
    /\ paused
    /\ emitted = << <<"Paused", owner>> >>
    /\ pauseRevert(owner) = "PausedState"
    /\ unpauseRevert(owner) = "ok"
    /\ \E s \in Senders : pauseRevert(s) = "NotOwner" /\ unpauseRevert(s) = "NotOwner"

\* What submissions and decryption requests write.
ledger == <<encryptedResourceDistribution, encryptedTotalResourcesInBatch,
            lastSubmissionTime, lastDecryptionRequestTime,
            counterRequest, requestedHandles, submissions, submissionsAtRequest,
            frozenAtRequest>>

\* C15 Pause: while the pause flag is set, the submission of a provider and
\* the decryption request of any caller revert with SystemPaused (the
\* submission of another caller with Unauthorized), the calls of these two
\* operations change nothing, and no tile contribution, batch total, cooldown
\* timestamp or request is created or changed; a decryption context changes
\* only by the completion of its request.
C15_PausedBlocksSubmitAndRequest ==
    /\ [](paused =>
             \A sender \in Senders, h \in InputHandles, batchId \in BatchIds, t \in NextTimes :
                 /\ SpecError(submitEncryptedResourceRevert(sender, h, t)) =
                        IF providers[sender] THEN "SystemPaused" ELSE "Unauthorized"
                 /\ SpecError(requestTotalResourcesDecryptionRevert(sender, batchId, t)) =
                        "SystemPaused")
    /\ [][paused =>
             /\ UNCHANGED ledger
             /\ \A r \in RequestIds :
                    decryptionContexts'[r] # decryptionContexts[r] =>
                        /\ decryptionContexts'[r] = [decryptionContexts[r] EXCEPT !.processed = TRUE]
                        /\ completed'[r] = completed[r] + 1
             /\ \/ UNCHANGED <<storage, emitted>>
                \/ \A sender \in Senders, h \in InputHandles, batchId \in BatchIds :
                       /\ \A tileId \in Tiles :
                              ~submitEncryptedResource(sender, tileId, h, now')
                       /\ ~requestTotalResourcesDecryption(sender, batchId, now')]_vars

\* The system was paused after a submission and a request that is still
\* pending: the provider's next submission and any request would revert.
C15_Witness ==
    /\ paused
    /\ emitted = << <<"Paused", owner>> >>
    /\ \E p \in Senders :
          /\ providers[p] /\ SubmissionTimes(p) # {}
          /\ submitEncryptedResourceRevert(p, InputHandle(1), now) = "PausedState"
    /\ \E r \in RequestIds : Issued(r) /\ ~decryptionContexts[r].processed
    /\ \E c \in Senders :
          requestTotalResourcesDecryptionRevert(c, currentBatchId, now) = "PausedState"

\* The outcomes ("ok" or the error) of all the calls that can be made in the
\* current state.
CallOutcomes ==
    UNION {
        {transferOwnershipRevert(s), addProviderRevert(s), removeProviderRevert(s),
         pauseRevert(s), unpauseRevert(s), setCooldownSecondsRevert(s),
         openNewBatchRevert(s)}
        \cup {closeBatchRevert(s, b) : b \in BatchIds}
        \cup {submitEncryptedResourceRevert(s, h, now) : h \in InputHandles}
        \cup {requestTotalResourcesDecryptionRevert(s, b, now) : b \in BatchIds}
        \cup UNION {{myCallbackRevert(r, c, proof) : c \in Cleartexts(r), proof \in Proofs} :
                       r \in RequestIds}
        : s \in Senders}

\* The errors of the design's taxonomy.
Taxonomy ==
    {"Unauthorized", "SystemPaused", "CooldownActive", "InvalidBatch",
     "BatchClosedForSubmissions", "AlreadyClosed", "UninitializedCiphertext",
     "ReplayAttempt", "StateMismatch", "InvalidProof"}

administered == <<owner, providers, paused, cooldownSeconds, currentBatchId, batchClosed>>

\* The step is a call of an administrative operation by sender.
AdministrativeCall(sender) ==
    \/ \E newOwner \in Addresses : transferOwnership(sender, newOwner, now')
    \/ \E provider \in Addresses : addProvider(sender, provider, now')
    \/ \E provider \in Addresses : removeProvider(sender, provider, now')
    \/ pause(sender, now')
    \/ unpause(sender, now')
    \/ \E c \in 0..MaxCooldown : setCooldownSeconds(sender, c, now')
    \/ openNewBatch(sender, now')
    \/ \E batchId \in BatchIds : closeBatch(sender, batchId, now')

\* C16 Owner-only administration: every administrative operation called by an
\* account that is not the current owner reverts with Unauthorized and
\* changes nothing, and the owner, the provider set, the pause flag, the
\* cooldown, currentBatchId and the closed flags change only by an
\* administrative call of the current owner.
C16_OnlyOwnerAdministers ==
    /\ [](\A s \in Senders : s # owner =>
             /\ {SpecError(e) : e \in
                    {transferOwnershipRevert(s), addProviderRevert(s), removeProviderRevert(s),
                     pauseRevert(s), unpauseRevert(s), setCooldownSecondsRevert(s),
                     openNewBatchRevert(s)}} = {"Unauthorized"}
             /\ \A batchId \in BatchIds :
                    SpecError(closeBatchRevert(s, batchId)) = "Unauthorized")
    /\ [][\/ UNCHANGED <<storage, emitted>>
          \/ /\ \A s \in Senders : s # owner => ~AdministrativeCall(s)
             /\ administered' # administered => AdministrativeCall(owner)]_vars

\* The owner has named a provider, set the cooldown, paused, closed batch 1
\* and opened and closed batch 2; the provider, not being the owner, is
\* rejected by closeBatch.
C16_Witness ==
    /\ paused /\ cooldownSeconds = MaxCooldown
    /\ currentBatchId = 2 /\ batchClosed[1] /\ batchClosed[2]
    /\ \E s \in Senders :
          /\ s # owner /\ providers[s]
          /\ closeBatchRevert(s, currentBatchId) = "NotOwner"
          /\ unpauseRevert(s) = "NotOwner"

\* C17 Ownership: the owner is a single address, the deployer after the
\* construction; it changes only by transferOwnership(n) of the owner, which
\* makes n the owner and emits OwnershipTransferred(previous, n); from the
\* state after the transfer on, the previous owner, when it is not n, is
\* rejected with Unauthorized by every administrative operation.
C17_OwnershipTransfersAtomically ==
    /\ owner = 1 /\ emitted[1] = <<"OwnershipTransferred", ZeroAddress, 1>>
    /\ [](owner \in Addresses)
    /\ [][/\ owner' # owner =>
                /\ transferOwnership(owner, owner', now')
                /\ emitted' = << <<"OwnershipTransferred", owner, owner'>> >>
          /\ \A n \in Addresses :
                transferOwnershipRevert(owner) = "ok" /\ transferOwnership(owner, n, now') =>
                    /\ owner' = n
                    /\ emitted' = << <<"OwnershipTransferred", owner, n>> >>
          /\ \A previous \in Senders :
                previous = owner /\ owner' # previous =>
                    /\ {SpecError(e) : e \in
                           {transferOwnershipRevert(previous)', addProviderRevert(previous)',
                            removeProviderRevert(previous)', pauseRevert(previous)',
                            unpauseRevert(previous)', setCooldownSecondsRevert(previous)',
                            openNewBatchRevert(previous)'}} = {"Unauthorized"}
                    /\ \A batchId \in BatchIds :
                           SpecError(closeBatchRevert(previous, batchId)') = "Unauthorized"]_vars

\* The deployer has just transferred the ownership to account 2 and is
\* rejected, while account 2 is accepted.
C17_Witness ==
    /\ owner = 2
    /\ emitted = << <<"OwnershipTransferred", 1, 2>> >>
    /\ transferOwnershipRevert(1) = "NotOwner" /\ pauseRevert(1) = "NotOwner"
    /\ addProviderRevert(2) = "ok"

\* C18 Batch lifecycle: after the construction currentBatchId is 1 and batch
\* 1 is open; currentBatchId never decreases, and changes only by
\* openNewBatch, which adds exactly 1 and leaves the new batch open; a closed
\* flag that is true stays true; every successful submission is recorded
\* under the batch that is the current one, and open, at the call.
C18_BatchLifecycle ==
    /\ currentBatchId = 1 /\ ~batchClosed[1]
    /\ [](currentBatchId >= 1)
    /\ [][/\ currentBatchId' >= currentBatchId
          /\ currentBatchId' # currentBatchId =>
                /\ currentBatchId' = currentBatchId + 1
                /\ ~batchClosed'[currentBatchId']
                /\ openNewBatch(owner, now')
          /\ \A s \in Senders :
                openNewBatchRevert(s) = "ok" /\ openNewBatch(s, now') =>
                    /\ currentBatchId' = currentBatchId + 1
                    /\ ~batchClosed'[currentBatchId']
                    /\ emitted' = << <<"BatchOpened", currentBatchId'>> >>
          /\ \A b \in BatchIds : batchClosed[b] => batchClosed'[b]
          /\ \A b \in BatchIds :
                submissions'[b] # submissions[b] =>
                    /\ b = currentBatchId /\ b = currentBatchId'
                    /\ ~batchClosed[b]
                    /\ Len(submissions'[b]) = Len(submissions[b]) + 1
                    /\ SubSeq(submissions'[b], 1, Len(submissions[b])) = submissions[b]
                    /\ LET last == submissions'[b][Len(submissions'[b])]
                       IN  /\ encryptedResourceDistribution'[b][last[1]] = last[2]
                           /\ emitted' = << <<"ResourceSubmitted", last[3], b, last[1],
                                              toBytes32(last[2])>> >>
          /\ encryptedResourceDistribution' # encryptedResourceDistribution =>
                submissions'[currentBatchId] # submissions[currentBatchId]]_vars

\* Batch 1 received a submission and was closed, batch 2 was opened and
\* received a submission: batch 1 is still closed and kept its submission.
C18_Witness ==
    /\ currentBatchId = 2
    /\ batchClosed[1] /\ ~batchClosed[2]
    /\ Len(submissions[1]) = 1 /\ Len(submissions[2]) = 1
    /\ emitted[1][1] = "ResourceSubmitted" /\ emitted[1][3] = 2

\* What an observer reconstructs from the log: the administered state, the
\* storage before the construction, and the state after one more event.
Observable ==
    [owner |-> owner, providers |-> providers, paused |-> paused,
     cooldownSeconds |-> cooldownSeconds, currentBatchId |-> currentBatchId,
     batchClosed |-> batchClosed]

ZeroStorage ==
    [owner |-> ZeroAddress, providers |-> [a \in Addresses |-> FALSE], paused |-> FALSE,
     cooldownSeconds |-> 0, currentBatchId |-> 0, batchClosed |-> [b \in BatchIds |-> FALSE]]

ReplayEvent(o, e) ==
    CASE e[1] = "OwnershipTransferred" -> [o EXCEPT !.owner = e[3]]
      [] e[1] = "ProviderAdded" -> [o EXCEPT !.providers[e[2]] = TRUE]
      [] e[1] = "ProviderRemoved" -> [o EXCEPT !.providers[e[2]] = FALSE]
      [] e[1] = "Paused" -> [o EXCEPT !.paused = TRUE]
      [] e[1] = "Unpaused" -> [o EXCEPT !.paused = FALSE]
      [] e[1] = "CooldownSecondsSet" -> [o EXCEPT !.cooldownSeconds = e[3]]
      [] e[1] = "BatchOpened" -> [o EXCEPT !.currentBatchId = e[2], !.batchClosed[e[2]] = FALSE]
      [] e[1] = "BatchClosed" -> [o EXCEPT !.batchClosed[e[2]] = TRUE]
      [] OTHER -> o

RECURSIVE ReplayLog(_, _)
ReplayLog(o, log) ==
    IF log = <<>> THEN o ELSE ReplayLog(ReplayEvent(o, Head(log)), Tail(log))

\* The step is the successful call that event e records, with e's values.
RecordedCall(e) ==
    CASE e[1] = "OwnershipTransferred" ->
             e[2] = owner /\ transferOwnership(owner, e[3], now')
      [] e[1] = "ProviderAdded" -> addProvider(owner, e[2], now')
      [] e[1] = "ProviderRemoved" -> removeProvider(owner, e[2], now')
      [] e[1] = "Paused" -> e[2] = owner /\ pause(owner, now')
      [] e[1] = "Unpaused" -> e[2] = owner /\ unpause(owner, now')
      [] e[1] = "CooldownSecondsSet" ->
             e[2] = cooldownSeconds /\ setCooldownSeconds(owner, e[3], now')
      [] e[1] = "BatchOpened" -> e[2] = currentBatchId + 1 /\ openNewBatch(owner, now')
      [] e[1] = "BatchClosed" -> closeBatch(owner, e[2], now')
      [] e[1] = "ResourceSubmitted" ->
             /\ e[3] = currentBatchId
             /\ \E h \in InputHandles :
                    /\ toBytes32(h) = e[5]
                    /\ submitEncryptedResourceRevert(e[2], h, now') = "ok"
                    /\ submitEncryptedResource(e[2], e[4], h, now')
      [] e[1] = "DecryptionRequested" ->
             /\ e[2] = counterRequest
             /\ e[4] = hashCiphertexts(<<toBytes32(encryptedTotalResourcesInBatch[e[3]])>>)
             /\ \E s \in Senders :
                    /\ requestTotalResourcesDecryptionRevert(s, e[3], now') = "ok"
                    /\ requestTotalResourcesDecryption(s, e[3], now')
      [] e[1] = "DecryptionCompleted" ->
             /\ e[3] = BatchOf(e[2])
             /\ \E s \in Senders, proof \in Proofs, cleartexts \in Cleartexts(e[2]) :
                    /\ abiDecodeUint(cleartexts) = e[4]
                    /\ myCallbackRevert(e[2], cleartexts, proof) = "ok"
                    /\ myCallback(s, e[2], cleartexts, proof, now', FALSE)
      [] OTHER -> FALSE

\* C20 Audit trail: the construction logs the events from which its state is
\* reconstructed; every call that changes the storage or the log appends
\* exactly one event, the one of its kind with the values of the transition;
\* and replaying the appended event on the owner, provider set, pause flag,
\* cooldown, currentBatchId and closed flags of the state before the call
\* gives those of the state after it.
C20_AuditTrail ==
    /\ ReplayLog(ZeroStorage, emitted) = Observable
    /\ [][\/ UNCHANGED <<storage, emitted>>
          \/ /\ Len(emitted') = 1
             /\ RecordedCall(emitted'[1])
             /\ Observable' = ReplayEvent(Observable, emitted'[1])]_vars

\* Every administered variable differs from its value after the
\* construction, a decryption was completed, and the last event is the
\* closing of batch 2.
C20_Witness ==
    /\ emitted = << <<"BatchClosed", 2>> >>
    /\ owner = 2 /\ providers[1] /\ paused /\ cooldownSeconds = MaxCooldown
    /\ currentBatchId = 2 /\ batchClosed[1] /\ batchClosed[2]
    /\ \E r \in RequestIds : completed[r] = 1

\* C21 Order of the callback's checks: every callback for a request that a
\* callback completed reverts with ReplayAttempt, whatever its proof and
\* whether or not a submission followed the request; every callback for a
\* request not completed and followed by a submission to its batch reverts
\* with StateMismatch, whatever its proof; a callback reverts with
\* InvalidProof only for a pending context whose state matches.
C21_ChecksInOrder ==
    \A r \in RequestIds :
        /\ completed[r] >= 1 => AlwaysReverts(r, "ReplayAttempt")
        /\ Stale(r) => AlwaysReverts(r, "StateMismatch")
        /\ \A cleartexts \in Cleartexts(r), proof \in Proofs :
               myCallbackRevert(r, cleartexts, proof) = "InvalidProof" =>
                   /\ ~decryptionContexts[r].processed
                   /\ MatchingState(r)
                   /\ ~checkSignatures(r, cleartexts, proof)

\* Two requests for a batch that then received a submission: the completed
\* one was answered again and rejected as a replay, the other was answered
\* and rejected for the changed state, and answers with a forged proof are
\* among those rejected so.
C21_Witness ==
    \E r, q \in RequestIds :
        /\ completed[r] = 1 /\ SubmittedSince(r)
        /\ "ReplayAttempt" \in callbackFailures[r]
        /\ Stale(q) /\ "StateMismatch" \in callbackFailures[q]
        /\ \A cleartexts \in Cleartexts(q) :
               /\ myCallbackRevert(r, cleartexts, "forged") = "ReplayAttempt"
               /\ myCallbackRevert(q, cleartexts, "forged") = "StateMismatch"

\* C22 Last write wins per tile: the contribution stored at (batch, tile) is
\* the ciphertext of the latest successful submission to the tile in the
\* batch, none when there was no such submission, and a submission changes
\* the contribution at no other key than its own.
C22_TileStoreLastWriteWins ==
    /\ [](\A b \in BatchIds, tileId \in Tiles :
             encryptedResourceDistribution[b][tileId] =
                 IF tileId \in TilesOf(b) THEN LatestHandle(b, tileId) ELSE Uninitialized)
    /\ [][\A b \in BatchIds, tileId \in Tiles :
             encryptedResourceDistribution'[b][tileId] # encryptedResourceDistribution[b][tileId] =>
                 /\ b = currentBatchId
                 /\ emitted' = << <<"ResourceSubmitted", emitted'[1][2], b, tileId,
                                    toBytes32(encryptedResourceDistribution'[b][tileId])>> >>
                 /\ \A a \in BatchIds, x \in Tiles :
                        <<a, x>> # <<b, tileId>> =>
                            encryptedResourceDistribution'[a][x] =
                                encryptedResourceDistribution[a][x]]_vars

\* A tile of batch 1 was submitted to twice with different ciphertexts and
\* holds the second; a tile of batch 2 holds its own contribution.
C22_Witness ==
    /\ Len(submissions[1]) = 2
    /\ submissions[1][1][1] = submissions[1][2][1]
    /\ submissions[1][1][2] # submissions[1][2][2]
    /\ encryptedResourceDistribution[1][submissions[1][2][1]] = submissions[1][2][2]
    /\ Len(submissions[2]) = 1
    /\ encryptedResourceDistribution[2][submissions[2][1][1]] = submissions[2][1][2]

\* C23 Decryption contexts: a context is created by the request that is
\* given its id, pending, and not before; the batchId and the stateHash of
\* the context of an issued request never change; its processed flag changes
\* only from false to true, and only in the callback that completes the
\* request; no context returns to the empty one.
C23_ContextWriteOnceFlipOnce ==
    /\ [](\A r \in RequestIds :
             /\ Issued(r) => decryptionContexts[r] # EmptyContext
             /\ ~Issued(r) => decryptionContexts[r] = EmptyContext
             /\ decryptionContexts[r].processed <=> completed[r] = 1)
    /\ [][\A r \in RequestIds :
             /\ Issued(r) =>
                    /\ decryptionContexts'[r].batchId = decryptionContexts[r].batchId
                    /\ decryptionContexts'[r].stateHash = decryptionContexts[r].stateHash
                    /\ decryptionContexts[r].processed => decryptionContexts'[r].processed
                    /\ decryptionContexts'[r].processed # decryptionContexts[r].processed =>
                           /\ completed'[r] = completed[r] + 1
                           /\ emitted'[1][1] = "DecryptionCompleted" /\ emitted'[1][2] = r
             /\ ~Issued(r) /\ decryptionContexts'[r] # decryptionContexts[r] =>
                    /\ r = counterRequest /\ counterRequest' = r + 1
                    /\ ~decryptionContexts'[r].processed
                    /\ emitted' = << <<"DecryptionRequested", r, decryptionContexts'[r].batchId,
                                       decryptionContexts'[r].stateHash>> >>]_vars

\* Two contexts of one batch with different snapshots: the first is still
\* pending after rejected callbacks, the second was completed.
C23_Witness ==
    \E r, q \in RequestIds :
        /\ Issued(r) /\ Issued(q) /\ r < q
        /\ BatchOf(r) = BatchOf(q)
        /\ decryptionContexts[r].stateHash # decryptionContexts[q].stateHash
        /\ ~decryptionContexts[r].processed /\ callbackFailures[r] # {}
        /\ decryptionContexts[q].processed

\* A batch that can no longer receive a submission: closed, or no longer
\* the current one.
Frozen(b) == batchClosed[b] \/ b < currentBatchId

\* C24 Frozen totals: a batch that is closed or no longer the current one
\* stays so, and its total, its tile contributions and its submissions never
\* change again; the state of a request issued for such a batch matches for
\* ever, so no callback for it reverts with StateMismatch.
C24_FrozenBatchNeverMismatches ==
    /\ [][\A b \in BatchIds :
             Frozen(b) =>
                 /\ Frozen(b)'
                 /\ encryptedTotalResourcesInBatch'[b] = encryptedTotalResourcesInBatch[b]
                 /\ encryptedResourceDistribution'[b] = encryptedResourceDistribution[b]
                 /\ submissions'[b] = submissions[b]]_vars
    /\ [](\A r \in RequestIds :
             Issued(r) /\ frozenAtRequest[r] =>
                 /\ Frozen(BatchOf(r))
                 /\ MatchingState(r)
                 /\ ~SubmittedSince(r)
                 /\ \A cleartexts \in Cleartexts(r), proof \in Proofs :
                        myCallbackRevert(r, cleartexts, proof) # "StateMismatch")

\* A request issued for batch 1 when batch 2 was the current one, batch 1
\* never closed, and completed after batch 2 received a submission.
C24_Witness ==
    \E r \in RequestIds :
        /\ Issued(r) /\ frozenAtRequest[r]
        /\ BatchOf(r) = 1 /\ ~batchClosed[1] /\ currentBatchId = 2
        /\ submissions[2] # <<>>
        /\ emitted = << <<"DecryptionCompleted", r, 1,
                           Plain(encryptedTotalResourcesInBatch[1])>> >>

\* C25 Unknown request: every callback for a request id that no request was
\* given reverts with StateMismatch, whatever its cleartext and proof; the id
\* keeps the empty context, nothing is completed under it, and the reverted
\* callback changes nothing and emits nothing.
C25_UnknownRequestRejected ==
    /\ [](\A r \in RequestIds :
             ~Issued(r) =>
                 /\ AlwaysReverts(r, "StateMismatch")
                 /\ decryptionContexts[r] = EmptyContext
                 /\ completed[r] = 0
                 /\ callbackFailures[r] \subseteq {"StateMismatch"})
    /\ [][\A r \in RequestIds :
             ~Issued(r) /\ counterRequest' = counterRequest
                 /\ callbackFailures'[r] # callbackFailures[r] =>
                     UNCHANGED <<storage, emitted, completed>>]_vars

\* A callback for an id not issued was rejected for the state, while a
\* request that was issued has been completed.
C25_Witness ==
    \E r, q \in RequestIds :
        /\ ~Issued(r) /\ "StateMismatch" \in callbackFailures[r]
        /\ decryptionContexts[r] = EmptyContext
        /\ Issued(q) /\ completed[q] = 1

\* The outcome of a callback by the context's flag, the state's consistency
\* and the proof's validity alone.
CallbackOutcome(processed, matches, valid) ==
    IF processed THEN "ReplayAttempt"
    ELSE IF ~matches THEN "StateMismatch"
    ELSE IF ~valid THEN "InvalidProof"
    ELSE "ok"

\* C26 Callback gate: in every state, paused or not, whatever the cooldown
\* and the closed flags, the outcome of a callback is decided by its context's
\* processed flag, the consistency of the state and the validity of the proof;
\* a step that is a callback by one account is the same callback by every
\* other account.
C26_CallbackGatedByContextAndProof ==
    /\ [](\A r \in RequestIds, proof \in Proofs :
             \A cleartexts \in Cleartexts(r) :
                 myCallbackRevert(r, cleartexts, proof) =
                     CallbackOutcome(decryptionContexts[r].processed, MatchingState(r),
                                     checkSignatures(r, cleartexts, proof)))
    /\ [][\/ UNCHANGED <<storage, emitted>>
          \/ \A r \in RequestIds, proof \in Proofs, s \in Senders :
                \A cleartexts \in Cleartexts(r) :
                    myCallback(s, r, cleartexts, proof, now', FALSE)
                        <=> myCallback(owner, r, cleartexts, proof, now', FALSE)]_vars

\* A request issued before the pause has just been completed while the
\* system is paused, its batch closed, and the cooldown of the relaying
\* account, which is neither the owner nor a provider, still running.
C26_Witness ==
    \E r \in RequestIds :
        /\ paused
        /\ batchClosed[BatchOf(r)]
        /\ decryptionContexts[r].processed
        /\ emitted = << <<"DecryptionCompleted", r, BatchOf(r),
                           Plain(encryptedTotalResourcesInBatch[BatchOf(r)])>> >>
        /\ owner # 2 /\ ~providers[2]
        /\ checkCooldown(2, now) = "CooldownActive"

\* C27 First cooldown: an account that never submitted has the last
\* submission time 0: with the system not paused, its submission as a
\* provider and its decryption request revert with CooldownActive exactly
\* when the time of the call is less than cooldownSeconds; and from the state
\* after setCooldownSeconds on, the gate of every account compares the time
\* with its recorded last submission time plus the new cooldownSeconds.
C27_NeverSubmittedCountsFromZero ==
    /\ [](\A p \in Senders, t \in NextTimes, h \in InputHandles :
             SubmissionTimes(p) = {} /\ ~paused =>
                 /\ lastSubmissionTime[p] = 0
                 /\ providers[p] =>
                        (submitEncryptedResourceRevert(p, h, t) = "CooldownActive"
                            <=> t < cooldownSeconds)
                 /\ requestTotalResourcesDecryptionRevert(p, currentBatchId, t) = "CooldownActive"
                        <=> t < cooldownSeconds)
    /\ [][cooldownSeconds' # cooldownSeconds =>
             /\ emitted' = << <<"CooldownSecondsSet", cooldownSeconds, cooldownSeconds'>> >>
             /\ lastSubmissionTime' = lastSubmissionTime
             /\ \A p \in Senders, t \in Times :
                    checkCooldown(p, t)' =
                        IF t < lastSubmissionTime[p] + cooldownSeconds'
                        THEN "CooldownActive" ELSE "ok"]_vars

\* The cooldown has just been lengthened: a provider whose cooldown had
\* elapsed is blocked again, and a provider that never submitted is blocked,
\* for submissions and for requests, the time being less than cooldownSeconds.
C27_Witness ==
    /\ emitted[1][1] = "CooldownSecondsSet" /\ emitted[1][2] < emitted[1][3]
    /\ \E p, q \in Senders :
          /\ SubmissionTimes(p) # {}
          /\ now - Max(SubmissionTimes(p)) >= emitted[1][2]
          /\ submitEncryptedResourceRevert(p, InputHandle(1), now) = "CooldownActive"
          /\ providers[q] /\ SubmissionTimes(q) = {}
          /\ now < cooldownSeconds
          /\ submitEncryptedResourceRevert(q, InputHandle(1), now) = "CooldownActive"
          /\ requestTotalResourcesDecryptionRevert(q, currentBatchId, now) = "CooldownActive"

\* C28 Replay protection per request: a pending request whose state matches
\* is completed by a callback with a valid proof also when another request
\* for the same batch, with the same snapshot, has been completed; and a
\* callback for one request, completed or rejected, changes the context of
\* no other request.
C28_ReplayProtectionPerRequest ==
    /\ [](\A r, q \in RequestIds :
             /\ r # q /\ Issued(r) /\ Issued(q)
             /\ BatchOf(r) = BatchOf(q)
             /\ decryptionContexts[q].processed
             /\ ~decryptionContexts[r].processed /\ MatchingState(r)
             => \A cleartexts \in Cleartexts(r), proof \in Proofs :
                    checkSignatures(r, cleartexts, proof) =>
                        myCallbackRevert(r, cleartexts, proof) = "ok")
    /\ [][\A r \in RequestIds :
             /\ counterRequest' = counterRequest
             /\ \/ completed'[r] # completed[r]
                \/ callbackFailures'[r] # callbackFailures[r]
             => \A q \in RequestIds \ {r} :
                    /\ decryptionContexts'[q] = decryptionContexts[q]
                    /\ completed'[q] = completed[q]]_vars

\* Two requests for one batch with one snapshot, pending at once: the later
\* one was completed first, the earlier one has just been completed, with
\* the same total.
C28_Witness ==
    \E q, r \in RequestIds :
        /\ q < r /\ Issued(r)
        /\ BatchOf(q) = BatchOf(r)
        /\ decryptionContexts[q].stateHash = decryptionContexts[r].stateHash
        /\ completed[r] = 1 /\ completed[q] = 1
        /\ emitted = << <<"DecryptionCompleted", q, BatchOf(q),
                           Plain(encryptedTotalResourcesInBatch[BatchOf(q)])>> >>

====
